---------------------------- MODULE Spec2Model ----------------------------
(***************************************************************************)
(* Schematic/PCB parity check of KiBot's update_xml preflight              *)
(* (src/kibot/pre_update_xml.py, Update_XML.check_pcb_parity and the two   *)
(* reconcilers check_components and check_nets).                           *)
(*                                                                         *)
(* A Python dict is a sequence of <<key, value>> pairs with distinct keys, *)
(* in insertion order (the order dict iteration follows).  A Python set is *)
(* a TLA+ set; iterating it takes SOME enumeration of its elements, since  *)
(* the order of a set of str depends on the per-process hash seed.         *)
(* A formatted message is the tuple <<template, arg1, arg2, ...>> of the   *)
(* format string and its arguments (all strings).  The log holds the       *)
(* warning and error records only (debug lines are left out).              *)
(***************************************************************************)
EXTENDS Naturals, Sequences, FiniteSets, TLC

VARIABLES
    ki5,              \* GS.ki5
    ki7,              \* GS.ki7
    kicad_version_n,  \* GS.kicad_version_n
    as_warnings,      \* self.options.as_warnings
    xml,              \* the export document GS.sch_no_ext+'.xml'
    pcb_file,         \* the board load_board() reads
    board,            \* GS.board (loaded = FALSE: None)
    pc,               \* position in check_pcb_parity
    comps,            \* dict ref -> Component(val, fp, props)
    net_nodes,        \* dict net name -> set of "<ref> pin <pin>"
    errors,           \* the list of discrepancies
    found_comps,      \* check_components' set of board references
    mod_i,            \* modules of GS.get_modules() already visited
    pcb_net_names,    \* check_nets' set of matched board net names
    net_i,            \* netcodes of NetsByNetcode() already visited
    log,              \* what logger.warning / logger.error received
    exit_code,        \* argument of exit(), "" while none happened
    raised,           \* exception leaving check_pcb_parity, "" while none
    run,              \* number of this invocation of the preflight
    prev_errors       \* the discrepancy list the previous invocation ended with

vars == <<ki5, ki7, kicad_version_n, as_warnings, xml, pcb_file, board, pc,
          comps, net_nodes, errors, found_comps, mod_i, pcb_net_names, net_i,
          log, exit_code, raised, run, prev_errors>>

inputs == <<ki5, ki7, kicad_version_n, as_warnings, xml, pcb_file>>

---------------------------------------------------------------------------
(* Bounds of the model *)

\* invocations of the preflight on the same inputs
MaxRuns == 2
\* property names a component may carry
MaxProps == 2
\* pins (pads) that nets may connect
MaxNodes == 2

(* Program constants *)
KICAD_VERSION_7_0_1 == 7000001

MISSING_TOOL == "MISSING_TOOL"
NETLIST_DIFF == "NETLIST_DIFF"
W_PARITY == "W_PARITY"
KiPlotConfigurationError == "KiPlotConfigurationError"

---------------------------------------------------------------------------
(* Python containers *)

Last(s) == s[Len(s)]
Front(s) == SubSeq(s, 1, Len(s) - 1)
Range(s) == {s[i] : i \in 1..Len(s)}

\* every enumeration of the set S: the orders a loop over S can follow
SetOrders(S) ==
    {s \in [1..Cardinality(S) -> S] : \A i, j \in 1..Cardinality(S) : i # j => s[i] # s[j]}

DictKeys(d) == {d[i][1] : i \in 1..Len(d)}
DictHas(d, k) == k \in DictKeys(d)
DictGet(d, k) == d[CHOOSE i \in 1..Len(d) : d[i][1] = k][2]
\* d[k] = v: an existing key keeps its place, a new key goes last
DictSet(d, k, v) ==
    IF DictHas(d, k)
    THEN [i \in 1..Len(d) |-> IF d[i][1] = k THEN <<k, v>> ELSE d[i]]
    ELSE Append(d, <<k, v>>)
\* the mapping a dict stands for, its order forgotten
DictAsFun(d) == [k \in DictKeys(d) |-> DictGet(d, k)]

\* '{}'.format(n) for the small counts of the model
IntToStr(n) == <<"0", "1", "2", "3", "4", "5", "6", "7", "8", "9">>[n + 1]

\* ref+' pin '+pin
Token(ref, pin) == ref \o " pin " \o pin

\* ','.join(list)
RECURSIVE Join(_)
Join(s) ==
    IF Len(s) = 0 THEN ""
    ELSE IF Len(s) = 1 THEN s[1]
    ELSE Join(Front(s)) \o "," \o Last(s)

---------------------------------------------------------------------------
(* The messages: the format strings of the source, without the backquotes   *)
(* they put around an argument.                                            *)

MsgPcbOnly(ref) == <<"{} found in PCB, but not in schematic", ref>>
MsgFootprint(ref, pcb_fp, sch_fp) ==
    <<"{} footprint mismatch (PCB: {} vs schematic: {})", ref, pcb_fp, sch_fp>>
MsgValue(ref, pcb_val, sch_val) ==
    <<"{} value mismatch (PCB: {} vs schematic: {})", ref, pcb_val, sch_val>>
MsgSchProp(ref, p) == <<"{} schematic property {} not in PCB", ref, p>>
MsgPropMismatch(ref, v_pcb, v) ==
    <<"{} property mismatch (PCB: {} vs schematic: {})", ref, v_pcb, v>>
MsgPcbProp(ref, p) == <<"{} PCB property {} not in schematic", ref, p>>
MsgSchOnly(ref) == <<"{} found in schematic, but not in PCB", ref>>
MsgNetCount(pcb_net_count, sch_net_count) ==
    <<"Net count mismatch (PCB {} vs schematic {})",
      IntToStr(pcb_net_count), IntToStr(sch_net_count)>>
MsgNetNotInSch(net_name) == <<"Net {} not in schematic", net_name>>
MsgNetExtra(net_name, dif) ==
    <<"Net {} extra PCB connection/s: {}", net_name, Join(dif)>>
MsgNetMissing(net_name, dif) ==
    <<"Net {} missing PCB connection/s: {}", net_name, Join(dif)>>
MsgNetNotInPcb(name) == <<"Net {} not in PCB", name>>

---------------------------------------------------------------------------
(* The export document and its parsing.  An optional child element is a    *)
(* sequence of at most one text; a missing section has present = FALSE.    *)

Component(val, fp, props) == [val |-> val, fp |-> fp, props |-> props]

\* val.text if val is not None else ''
TextOrEmpty(child) == IF Len(child) = 0 THEN "" ELSE child[1]

\* {p.get('name'): p.get('value') for p in c.iter('property')}
RECURSIVE ParseProps(_)
ParseProps(properties) ==
    IF Len(properties) = 0 THEN <<>>
    ELSE DictSet(ParseProps(Front(properties)),
                 Last(properties).name, Last(properties).value)

\* the loop over components.iter('comp')
RECURSIVE ParseComps(_)
ParseComps(elems) ==
    IF Len(elems) = 0 THEN <<>>
    ELSE LET c == Last(elems)
         IN  DictSet(ParseComps(Front(elems)), c.ref,
                     Component(TextOrEmpty(c.value), TextOrEmpty(c.footprint),
                               ParseProps(c.properties)))

\* {node.get('ref')+' pin '+node.get('pin') for node in n.iter('node')}
NodeSet(nodes) == {Token(nodes[i].ref, nodes[i].pin) : i \in 1..Len(nodes)}

\* the loop over netlist.iter('net'); the code attribute is not read
RECURSIVE ParseNets(_)
ParseNets(elems) ==
    IF Len(elems) = 0 THEN <<>>
    ELSE LET n == Last(elems)
         IN  DictSet(ParseNets(Front(elems)), n.name, NodeSet(n.nodes))

\* a parser that forgets to test the root's tag
BadDocument_NoRootTest(doc) == ~doc.wellformed

\* ET.parse raised, or root.tag != 'export'
BadDocument(doc) == ~doc.wellformed \/ doc.root # "export"

---------------------------------------------------------------------------
(* The board: modules in GS.get_modules() order, each with its properties  *)
(* as a mapping; nets in netcode order, nets[1] being the bogus net 0.     *)

Module(ref, value, fpid, props) ==
    [ref |-> ref, value |-> value, fpid |-> fpid, props |-> props]

NoBoard == [loaded |-> FALSE, modules |-> <<>>, nets |-> <<>>]

\* con.GetNetCount()
GetNetCount(b) == Len(b.nets)

\* {pad.GetParent().GetReference()+' pin '+pad.GetNumber() for pad in con.GetNetItems(n, PCB_PAD_T)}
PadNodes(net) == {Token(pad.ref, pad.number) : pad \in net.pads}

---------------------------------------------------------------------------
(* check_components *)

\* the pass without its continue: a missing property goes on to the comparison
PropErrors_NoContinue(ref, p, v, pcb_props) ==
    IF p \notin DOMAIN pcb_props
    THEN <<MsgSchProp(ref, p), MsgPropMismatch(ref, "None", v)>>
    ELSE IF pcb_props[p] # v THEN <<MsgPropMismatch(ref, pcb_props[p], v)>>
    ELSE <<>>

\* one pass of the loop over sch_data.props.items()
PropErrors(ref, p, v, pcb_props) ==
    IF p \notin DOMAIN pcb_props THEN <<MsgSchProp(ref, p)>>
    ELSE IF pcb_props[p] # v THEN <<MsgPropMismatch(ref, pcb_props[p], v)>>
    ELSE <<>>

\* the loop over sch_data.props.items(), in the dict's order
RECURSIVE SchPropErrors(_, _, _)
SchPropErrors(ref, sch_props, pcb_props) ==
    IF Len(sch_props) = 0 THEN <<>>
    ELSE SchPropErrors(ref, Front(sch_props), pcb_props)
         \o PropErrors(ref, Last(sch_props)[1], Last(sch_props)[2], pcb_props)

\* found_props once the loop has ended
FoundProps(sch_props, pcb_props) ==
    {p \in DictKeys(sch_props) : p \in DOMAIN pcb_props}

\* the difference forgotten: every board property counts as missing
MissingProps_AllKeys(sch_props, pcb_props) == DOMAIN pcb_props

\* set(pcb_props.keys()).difference(found_props)
MissingProps(sch_props, pcb_props) ==
    (DOMAIN pcb_props) \ FoundProps(sch_props, pcb_props)

\* the set the loop on "Missing properties" walks for module m (none when the loop is not reached)
ModuleMissingProps(m, cs) ==
    IF DictHas(cs, m.ref) THEN MissingProps(DictGet(cs, m.ref).props, m.props) ELSE {}

\* the body without its continue: a module the schematic lacks goes on to
\* the field checks, against an empty component
ModuleErrors_NoContinue(m, cs, order) ==
    LET sch_data == IF DictHas(cs, m.ref) THEN DictGet(cs, m.ref)
                    ELSE Component("", "", <<>>)
    IN  (IF ~DictHas(cs, m.ref) THEN <<MsgPcbOnly(m.ref)>> ELSE <<>>)
        \o (IF sch_data.fp # m.fpid
            THEN <<MsgFootprint(m.ref, m.fpid, sch_data.fp)>> ELSE <<>>)
        \o (IF sch_data.val # m.value
            THEN <<MsgValue(m.ref, m.value, sch_data.val)>> ELSE <<>>)
        \o SchPropErrors(m.ref, sch_data.props, m.props)
        \o [i \in 1..Len(order) |-> MsgPcbProp(m.ref, order[i])]

\* the body of the loop over GS.get_modules() for module m; order is the
\* enumeration its loop over the set of missing properties follows
ModuleErrors(m, cs, order) ==
    IF ~DictHas(cs, m.ref) THEN <<MsgPcbOnly(m.ref)>>
    ELSE LET sch_data == DictGet(cs, m.ref)
         IN  (IF sch_data.fp # m.fpid
              THEN <<MsgFootprint(m.ref, m.fpid, sch_data.fp)>> ELSE <<>>)
             \o (IF sch_data.val # m.value
                 THEN <<MsgValue(m.ref, m.value, sch_data.val)>> ELSE <<>>)
             \o SchPropErrors(m.ref, sch_data.props, m.props)
             \o [i \in 1..Len(order) |-> MsgPcbProp(m.ref, order[i])]

\* set(comps.keys()).difference(found_comps)
SchOnlyRefs(cs, found) == DictKeys(cs) \ found

\* the loop over that set, walked in the enumeration order
SchOnlyErrors(order) == [i \in 1..Len(order) |-> MsgSchOnly(order[i])]

---------------------------------------------------------------------------
(* check_nets *)

\* the count with the bogus net 0 left in
PcbNetCount_WithBogus(b) == GetNetCount(b)

\* con.GetNetCount()-1: the bogus net 0 removed
PcbNetCount(b) == GetNetCount(b) - 1

\* the total count test
NetCountErrors(pcb_net_count, sch_net_count) ==
    IF pcb_net_count # sch_net_count
    THEN <<MsgNetCount(pcb_net_count, sch_net_count)>> ELSE <<>>

\* the second difference taken the same way round as the first
MissingNodes_Swapped(net, nn) ==
    IF DictHas(nn, net.name) THEN PadNodes(net) \ DictGet(nn, net.name) ELSE {}

\* pcb_nodes-sch_nodes and sch_nodes-pcb_nodes of a board net the schematic has too
ExtraNodes(net, nn) ==
    IF DictHas(nn, net.name) THEN PadNodes(net) \ DictGet(nn, net.name) ELSE {}
MissingNodes(net, nn) ==
    IF DictHas(nn, net.name) THEN DictGet(nn, net.name) \ PadNodes(net) ELSE {}

\* the body of the loop over NetsByNetcode() for netcode n # 0; extra and
\* missing are the enumerations list(dif) gives of the two differences
NetErrors(net, nn, extra, missing) ==
    IF ~DictHas(nn, net.name) THEN <<MsgNetNotInSch(net.name)>>
    ELSE (IF ExtraNodes(net, nn) # {}
          THEN <<MsgNetExtra(net.name, extra)>> ELSE <<>>)
         \o (IF MissingNodes(net, nn) # {}
             THEN <<MsgNetMissing(net.name, missing)>> ELSE <<>>)

\* the loop over net_nodes.keys(), in the dict's order
RECURSIVE SchNetErrors(_, _)
SchNetErrors(nn, names) ==
    IF Len(nn) = 0 THEN <<>>
    ELSE SchNetErrors(Front(nn), names)
         \o (IF Last(nn)[1] \notin names THEN <<MsgNetNotInPcb(Last(nn)[1])>> ELSE <<>>)

---------------------------------------------------------------------------
(* Report *)

\* for e in errors: logger.warning(W_PARITY+e)
WarningLines(es) == [i \in 1..Len(es) |-> <<"warning", W_PARITY, es[i]>>]
\* for e in errors: logger.error(e)
ErrorLines(es) == [i \in 1..Len(es) |-> <<"error", "", es[i]>>]

---------------------------------------------------------------------------
(* check_pcb_parity, one action per step *)

\* the KiCad 7.0.0 test left out
PreconditionFails_Ki5Only(k5, k7, version_n) == k5

\* the two tests that end in exit(MISSING_TOOL)
PreconditionFails(k5, k7, version_n) ==
    k5 \/ (k7 /\ version_n < KICAD_VERSION_7_0_1)

\* the line logger.error receives before exit(MISSING_TOOL)
PreconditionLine(k5) ==
    IF k5 THEN <<"error", "", <<"PCB vs schematic parity only available for KiCad 6">>>>
    ELSE <<"error", "", <<"Connectivity API is broken on KiCad 7.0.0">>>>

CheckVersion ==
    /\ pc = "version"
    /\ IF PreconditionFails(ki5, ki7, kicad_version_n)
       THEN /\ log' = Append(log, PreconditionLine(ki5))
            /\ exit_code' = MISSING_TOOL
            /\ pc' = "done"
       ELSE /\ pc' = "parse"
            /\ UNCHANGED <<log, exit_code>>
    /\ UNCHANGED <<inputs, board, comps, net_nodes, errors, found_comps, mod_i,
                   pcb_net_names, net_i, raised, run, prev_errors>>

\* comps once the document is read
ParsedComps(doc) ==
    IF doc.components.present THEN ParseComps(doc.components.elems) ELSE <<>>
\* net_nodes once the document is read
ParsedNets(doc) ==
    IF doc.nets.present THEN ParseNets(doc.nets.elems) ELSE <<>>

ParseXML ==
    /\ pc = "parse"
    /\ IF BadDocument(xml)
       THEN /\ raised' = KiPlotConfigurationError
            /\ pc' = "done"
            /\ UNCHANGED <<comps, net_nodes>>
       ELSE /\ comps' = ParsedComps(xml)
            /\ net_nodes' = ParsedNets(xml)
            /\ pc' = "load_board"
            /\ UNCHANGED raised
    /\ UNCHANGED <<inputs, board, errors, found_comps, mod_i, pcb_net_names,
                   net_i, log, exit_code, run, prev_errors>>

\* errors = [] and load_board()
LoadBoard ==
    /\ pc = "load_board"
    /\ errors' = <<>>
    /\ board' = pcb_file
    /\ found_comps' = {}
    /\ mod_i' = 0
    /\ pc' = "check_components"
    /\ UNCHANGED <<inputs, comps, net_nodes, pcb_net_names, net_i, log,
                   exit_code, raised, run, prev_errors>>

\* one pass of check_components' loop over GS.get_modules()
CheckModule ==
    /\ pc = "check_components"
    /\ mod_i < Len(board.modules)
    /\ LET m == board.modules[mod_i + 1]
       IN  /\ \E order \in SetOrders(ModuleMissingProps(m, comps)) :
                errors' = errors \o ModuleErrors(m, comps, order)
           /\ found_comps' = found_comps \cup {m.ref}
    /\ mod_i' = mod_i + 1
    /\ UNCHANGED <<inputs, board, pc, comps, net_nodes, pcb_net_names, net_i,
                   log, exit_code, raised, run, prev_errors>>

\* check_components failing fast: with discrepancies found and no
\* as_warnings it reports and exits before the nets are checked
CheckSchOnly_FailFast ==
    /\ pc = "check_components"
    /\ mod_i = Len(board.modules)
    /\ \E order \in SetOrders(DictKeys(comps) \ found_comps) :
         errors' = errors \o [i \in 1..Len(order) |-> MsgSchOnly(order[i])]
    /\ IF errors' # <<>> /\ ~as_warnings
       THEN /\ log' = log \o [i \in 1..Len(errors') |-> <<"error", "", errors'[i]>>]
            /\ exit_code' = "NETLIST_DIFF"
            /\ pc' = "done"
       ELSE /\ pc' = "check_nets_count"
            /\ UNCHANGED <<log, exit_code>>
    /\ UNCHANGED <<inputs, board, comps, net_nodes, found_comps, mod_i,
                   pcb_net_names, net_i, raised, run, prev_errors>>

\* check_components' last loop, and its return
CheckSchOnly ==
    /\ pc = "check_components"
    /\ mod_i = Len(board.modules)
    /\ \E order \in SetOrders(SchOnlyRefs(comps, found_comps)) :
         errors' = errors \o SchOnlyErrors(order)
    /\ pc' = "check_nets_count"
    /\ UNCHANGED <<inputs, board, comps, net_nodes, found_comps, mod_i,
                   pcb_net_names, net_i, log, exit_code, raised, run, prev_errors>>

\* check_nets up to its loop: the total count
CheckNetCount ==
    /\ pc = "check_nets_count"
    /\ errors' = errors \o NetCountErrors(PcbNetCount(board), Len(net_nodes))
    /\ pcb_net_names' = {}
    /\ net_i' = 0
    /\ pc' = "check_nets"
    /\ UNCHANGED <<inputs, board, comps, net_nodes, found_comps, mod_i, log,
                   exit_code, raised, run, prev_errors>>

\* one pass of check_nets' loop over NetsByNetcode(); netcode n = net_i
CheckNet ==
    /\ pc = "check_nets"
    /\ net_i < Len(board.nets)
    /\ LET net == board.nets[net_i + 1]
       IN  IF net_i = 0
           THEN UNCHANGED <<errors, pcb_net_names>>
           ELSE /\ \E extra \in SetOrders(ExtraNodes(net, net_nodes)) :
                   \E missing \in SetOrders(MissingNodes(net, net_nodes)) :
                     errors' = errors \o NetErrors(net, net_nodes, extra, missing)
                /\ pcb_net_names' = IF DictHas(net_nodes, net.name)
                                    THEN pcb_net_names \cup {net.name}
                                    ELSE pcb_net_names
    /\ net_i' = net_i + 1
    /\ UNCHANGED <<inputs, board, pc, comps, net_nodes, found_comps, mod_i,
                   log, exit_code, raised, run, prev_errors>>

\* check_nets' last loop, and its return
CheckSchNets ==
    /\ pc = "check_nets"
    /\ net_i = Len(board.nets)
    /\ errors' = errors \o SchNetErrors(net_nodes, pcb_net_names)
    /\ pc' = "report"
    /\ UNCHANGED <<inputs, board, comps, net_nodes, found_comps, mod_i,
                   pcb_net_names, net_i, log, exit_code, raised, run, prev_errors>>

\* the exit taken whatever as_warnings says
ReportExit_IgnoresWarn(es, warn) == IF es # <<>> THEN NETLIST_DIFF ELSE ""

\* what the report hands to the logger
ReportLines(es, warn) == IF warn THEN WarningLines(es) ELSE ErrorLines(es)
\* the exit the report ends with, "" for a return
ReportExit(es, warn) == IF es # <<>> /\ ~warn THEN NETLIST_DIFF ELSE ""

Report ==
    /\ pc = "report"
    /\ log' = log \o ReportLines(errors, as_warnings)
    /\ exit_code' = ReportExit(errors, as_warnings)
    /\ pc' = "done"
    /\ UNCHANGED <<inputs, board, comps, net_nodes, errors, found_comps, mod_i,
                   pcb_net_names, net_i, raised, run, prev_errors>>

\* the state check_pcb_parity starts in
InitProgram ==
    /\ board = NoBoard
    /\ pc = "version"
    /\ comps = <<>>
    /\ net_nodes = <<>>
    /\ errors = <<>>
    /\ found_comps = {}
    /\ mod_i = 0
    /\ pcb_net_names = {}
    /\ net_i = 0
    /\ log = <<>>
    /\ exit_code = ""
    /\ raised = ""

\* the preflight run once more, in a new process, on the same files
Rerun ==
    /\ pc = "done"
    /\ run < MaxRuns
    /\ run' = run + 1
    /\ prev_errors' = errors
    /\ board' = NoBoard
    /\ pc' = "version"
    /\ comps' = <<>>
    /\ net_nodes' = <<>>
    /\ errors' = <<>>
    /\ found_comps' = {}
    /\ mod_i' = 0
    /\ pcb_net_names' = {}
    /\ net_i' = 0
    /\ log' = <<>>
    /\ exit_code' = ""
    /\ raised' = ""
    /\ UNCHANGED inputs

Next ==
    \/ CheckVersion
    \/ ParseXML
    \/ LoadBoard
    \/ CheckModule
    \/ CheckSchOnly
    \/ CheckNetCount
    \/ CheckNet
    \/ CheckSchNets
    \/ Report
    \/ Rerun

---------------------------------------------------------------------------
(* The inputs the model draws.  References and net names are unique within *)
(* each side's data except where a document repeats an element on purpose. *)

PropNames == <<"Tolerance", "MPN", "Voltage", "Dielectric">>
PropKeys == {PropNames[i] : i \in 1..MaxProps}
PropVals == {"1%", "5%"}
Values == {"10k", "1k"}
Footprints == {"R_0603", "R_0805"}

PadNames == <<[ref |-> "R1", number |-> "1"], [ref |-> "C1", number |-> "2"],
              [ref |-> "R1", number |-> "2"], [ref |-> "C1", number |-> "1"]>>
Pads == {PadNames[i] : i \in 1..MaxNodes}
NetNames == {"GND", "VCC"}

\* the mappings from some property names to values
PropMaps == UNION {[S -> PropVals] : S \in SUBSET PropKeys}

CompElem(ref, value, footprint, properties) ==
    [ref |-> ref, value |-> value, footprint |-> footprint, properties |-> properties]
PropElem(name, value) == [name |-> name, value |-> value]
NetElem(name, code, nodes) == [name |-> name, code |-> code, nodes |-> nodes]
NodeElem(ref, pin) == [ref |-> ref, pin |-> pin]
Section(elems) == [present |-> TRUE, elems |-> elems]
NoSection == [present |-> FALSE, elems |-> <<>>]
Document(wellformed, root, components, nets) ==
    [wellformed |-> wellformed, root |-> root, components |-> components, nets |-> nets]
Board(modules, nets) == [loaded |-> TRUE, modules |-> modules, nets |-> nets]
BoardNet(name, pads) == [name |-> name, pads |-> pads]

\* the property elements of a mapping, in PropNames order
PropElems(f) ==
    LET keys == SelectSeq(SubSeq(PropNames, 1, MaxProps), LAMBDA k : k \in DOMAIN f)
    IN  [i \in 1..Len(keys) |-> PropElem(keys[i], f[keys[i]])]

\* the node elements of a set of pads, in PadNames order
NodeElems(ps) ==
    LET sel == SelectSeq(SubSeq(PadNames, 1, MaxNodes), LAMBDA q : q \in ps)
    IN  [i \in 1..Len(sel) |-> NodeElem(sel[i].ref, sel[i].number)]

\* the host tools: KiCad 5, 6, 7.0.0 and 7.0.1
HostTools ==
    {<<TRUE, FALSE, 5001009>>, <<FALSE, FALSE, 6000011>>,
     <<FALSE, TRUE, KICAD_VERSION_7_0_1 - 1>>, <<FALSE, TRUE, KICAD_VERSION_7_0_1>>}

KiCad6 == ki5 = FALSE /\ ki7 = FALSE /\ kicad_version_n = 6000011

\* a capacitor that is the same on both sides
C1Elem == CompElem("C1", <<"100n">>, <<"C_0402">>, <<>>)
C1Module == Module("C1", "100n", "C_0402", <<>>)
R1Elem == CompElem("R1", <<"10k">>, <<"R_0603">>, <<>>)
R1Module == Module("R1", "10k", "R_0603", <<>>)

(* Components vary, the nets are empty on both sides.  R1 is on each side  *)
(* absent or present with any property mapping (and, on the board, any     *)
(* value and footprint); C1 is absent or present; the board lists its      *)
(* modules in either order.                                                *)
InitComp ==
    /\ KiCad6
    /\ as_warnings \in BOOLEAN
    /\ \E schR1 \in {<<>>} \cup {<<CompElem("R1", <<"10k">>, <<"R_0603">>, PropElems(f))>> : f \in PropMaps},
          schC1 \in {<<>>, <<C1Elem>>},
          pcbR1 \in {<<>>} \cup {<<Module("R1", v, fp, f)>> : v \in Values, fp \in Footprints, f \in PropMaps},
          pcbC1 \in {<<>>, <<C1Module>>},
          swap \in BOOLEAN :
        /\ swap => Len(pcbR1) = 1 /\ Len(pcbC1) = 1
        /\ xml = Document(TRUE, "export", Section(schR1 \o schC1), Section(<<>>))
        /\ pcb_file = Board(IF swap THEN pcbC1 \o pcbR1 ELSE pcbR1 \o pcbC1,
                            <<BoardNet("", {})>>)
    /\ InitProgram
    /\ run = 1
    /\ prev_errors = <<>>

\* the ways to connect each pad to one net or to none, with the nets listed
\* in some order (a net may have no pad)
NetLayouts ==
    {l \in [assign : [Pads -> NetNames \cup {""}],
            order : UNION {SetOrders(S) : S \in SUBSET NetNames}] :
        \A q \in Pads : l.assign[q] # "" => l.assign[q] \in Range(l.order)}

PadsOn(l, name) == {q \in Pads : l.assign[q] = name}

(* Nets vary, R1 and C1 are the same on both sides.                        *)
InitNets ==
    /\ KiCad6
    /\ as_warnings \in BOOLEAN
    /\ \E sch \in NetLayouts, pcb \in NetLayouts :
        /\ xml = Document(TRUE, "export", Section(<<R1Elem, C1Elem>>),
                          Section([i \in 1..Len(sch.order) |->
                                     NetElem(sch.order[i], i, NodeElems(PadsOn(sch, sch.order[i])))]))
        /\ pcb_file = Board(<<R1Module, C1Module>>,
                            <<BoardNet("", PadsOn(pcb, ""))>>
                            \o [i \in 1..Len(pcb.order) |->
                                  BoardNet(pcb.order[i], PadsOn(pcb, pcb.order[i]))])
    /\ InitProgram
    /\ run = 1
    /\ prev_errors = <<>>

\* documents for the whole flow: malformed, with another root, with a
\* section missing, with a child missing, with an element repeated
FlowCompElems ==
    {CompElem("R1", v, <<"R_0603">>, ps) :
        v \in {<<>>, <<"10k">>},
        ps \in {<<>>, <<PropElem("Tolerance", "1%"), PropElem("Tolerance", "5%")>>}}
FlowCompSections ==
    {NoSection} \cup {Section(<<>>)} \cup {Section(<<c>>) : c \in FlowCompElems}
    \cup {Section(<<c, d>>) : c, d \in FlowCompElems}
FlowNetSections ==
    {NoSection, Section(<<>>),
     Section(<<NetElem("GND", 1, <<NodeElem("R1", "1")>>)>>),
     Section(<<NetElem("GND", 1, <<NodeElem("R1", "1")>>),
               NetElem("GND", 2, <<NodeElem("R1", "2")>>)>>)}
FlowBoards ==
    {Board(<<>>, <<BoardNet("", {})>>),
     Board(<<Module("R1", "10k", "R_0603", [k \in {"Tolerance"} |-> "5%"])>>,
           <<BoardNet("", {[ref |-> "R1", number |-> "1"]}),
             BoardNet("GND", {[ref |-> "R1", number |-> "2"]})>>),
     Board(<<Module("R1", "", "R_0603", <<>>)>>,
           <<BoardNet("", {}), BoardNet("GND", {[ref |-> "R1", number |-> "1"]})>>)}

InitFlow ==
    /\ \E h \in HostTools : ki5 = h[1] /\ ki7 = h[2] /\ kicad_version_n = h[3]
    /\ as_warnings \in BOOLEAN
    /\ xml \in {Document(w, r, c, n) : w \in BOOLEAN, r \in {"export", "kicad_sch"},
                                        c \in FlowCompSections, n \in FlowNetSections}
    /\ pcb_file \in FlowBoards
    /\ InitProgram
    /\ run = 1
    /\ prev_errors = <<>>

Spec == InitFlow /\ [][Next]_vars
SpecComp == InitComp /\ [][Next]_vars
SpecNets == InitNets /\ [][Next]_vars

\* components and nets both vary (each in its own runs)
SpecParity == (InitComp \/ InitNets) /\ [][Next]_vars

---------------------------------------------------------------------------
(* Vocabulary of the properties *)

CompTemplates ==
    {MsgPcbOnly("")[1], MsgFootprint("", "", "")[1], MsgValue("", "", "")[1],
     MsgSchProp("", "")[1], MsgPropMismatch("", "", "")[1], MsgPcbProp("", "")[1],
     MsgSchOnly("")[1]}
NetTemplates ==
    {MsgNetCount(0, 0)[1], MsgNetNotInSch("")[1], MsgNetExtra("", <<>>)[1],
     MsgNetMissing("", <<>>)[1], MsgNetNotInPcb("")[1]}

\* the places of errors holding a component message about reference ref
AboutRef(ref) == {i \in 1..Len(errors) : errors[i][1] \in CompTemplates /\ errors[i][2] = ref}
\* the places of errors holding a per-net message about net name
AboutNet(name) ==
    {i \in 1..Len(errors) : errors[i][1] \in NetTemplates \ {MsgNetCount(0, 0)[1]}
                            /\ errors[i][2] = name}
\* the places of errors holding exactly message msg
Places(msg) == {i \in 1..Len(errors) : errors[i] = msg}
\* the places of errors holding a message of this template about this item
PlacesOf(template, item) ==
    {i \in 1..Len(errors) : errors[i][1] = template /\ errors[i][2] = item}

\* the inputs, read directly
SchRefs == {xml.components.elems[i].ref : i \in 1..Len(xml.components.elems)}
PcbRefs == {pcb_file.modules[i].ref : i \in 1..Len(pcb_file.modules)}
SchNetNames == {xml.nets.elems[i].name : i \in 1..Len(xml.nets.elems)}
\* the board's nets, the reserved one left out
PcbNets == {pcb_file.nets[i] : i \in 2..Len(pcb_file.nets)}
ModuleOf(ref) == CHOOSE m \in Range(pcb_file.modules) : m.ref = ref

\* check_components has returned / both reconcilers have returned
ComponentsDone == board.loaded /\ pc \in {"check_nets_count", "check_nets", "report", "done"}
ReconciliationDone == board.loaded /\ pc \in {"report", "done"}
Reconciling == pc \in {"check_components", "check_nets_count", "check_nets"}
HostToolTooOld == ki5 \/ (ki7 /\ kicad_version_n < KICAD_VERSION_7_0_1)

---------------------------------------------------------------------------
(* C1: once both reconcilers have run and the report is made: an empty     *)
(* discrepancy list surfaces nothing and the check returns; a non-empty    *)
(* list with as_warnings surfaces every message as a warning, in order,    *)
(* and the run is not aborted; a non-empty list without as_warnings        *)
(* surfaces every message as an error and exits with NETLIST_DIFF.         *)
C1_ReportOutcome ==
    (board.loaded /\ pc = "done") =>
        /\ raised = ""
        /\ Len(log) = Len(errors)
        /\ \A i \in 1..Len(errors) :
             log[i] = IF as_warnings THEN <<"warning", W_PARITY, errors[i]>>
                      ELSE <<"error", "", errors[i]>>
        /\ exit_code = IF errors # <<>> /\ ~as_warnings THEN NETLIST_DIFF ELSE ""

C1_Witness ==
    /\ board.loaded /\ pc = "done" /\ ~as_warnings
    /\ Len(errors) >= 2 /\ exit_code = NETLIST_DIFF

(* C2: with KiCad 5, or KiCad 7 older than 7.0.1, the check ends with      *)
(* exit(MISSING_TOOL) whatever as_warnings is, after one error line, with  *)
(* the document never parsed, the board never loaded, no discrepancy       *)
(* collected and nothing surfaced as a warning.                            *)
C2_PreconditionFatal ==
    HostToolTooOld =>
        /\ pc \in {"version", "done"}
        /\ ~board.loaded /\ comps = <<>> /\ net_nodes = <<>> /\ errors = <<>>
        /\ raised = ""
        /\ pc = "version" => log = <<>> /\ exit_code = ""
        /\ pc = "done" => /\ exit_code = MISSING_TOOL
                          /\ Len(log) = 1 /\ log[1][1] = "error"

C2_Witness ==
    /\ ki7 /\ ~ki5 /\ kicad_version_n < KICAD_VERSION_7_0_1 /\ as_warnings
    /\ xml.wellformed /\ xml.root = "export" /\ Len(xml.components.elems) > 0
    /\ pc = "done" /\ exit_code = MISSING_TOOL

(* C3: a document that is not well-formed, or whose root is not the export *)
(* tag, makes the parser (reached once the host tool has passed its test)  *)
(* raise the configuration error; in every state of such a run the board   *)
(* is not loaded, no reconciler runs and no discrepancy is collected or    *)
(* surfaced, whatever as_warnings is.                                      *)
C3_FormatError ==
    (~xml.wellformed \/ xml.root # "export") =>
        /\ pc \in {"version", "parse", "done"}
        /\ ~board.loaded /\ comps = <<>> /\ net_nodes = <<>> /\ errors = <<>>
        /\ exit_code \in {"", MISSING_TOOL}
        /\ exit_code = "" => log = <<>>
        /\ (pc = "done" /\ ~HostToolTooOld) =>
              raised = KiPlotConfigurationError /\ exit_code = ""

C3_Witness ==
    /\ xml.wellformed /\ xml.root # "export" /\ as_warnings
    /\ Len(xml.components.elems) > 0 /\ Len(pcb_file.modules) > 0
    /\ pc = "done" /\ raised = KiPlotConfigurationError

(* C4: once check_components has returned, a reference found only on the  *)
(* board has exactly one message about it, the "found in PCB, but not in   *)
(* schematic" one (so no footprint, value or property message), and a      *)
(* reference found only in the schematic has exactly one message about it, *)
(* the "found in schematic, but not in PCB" one.                           *)
C4_OneSidedReference ==
    ComponentsDone =>
        /\ \A ref \in PcbRefs \ SchRefs :
             Cardinality(AboutRef(ref)) = 1 /\ AboutRef(ref) = Places(MsgPcbOnly(ref))
        /\ \A ref \in SchRefs \ PcbRefs :
             Cardinality(AboutRef(ref)) = 1 /\ AboutRef(ref) = Places(MsgSchOnly(ref))

C4_Witness ==
    /\ ComponentsDone
    /\ \E ref \in PcbRefs \ SchRefs : DOMAIN ModuleOf(ref).props # {}
    /\ SchRefs \ PcbRefs # {}

(* C5: once both reconcilers have returned, a component with the same      *)
(* reference, value, footprint and property mapping on both sides has no   *)
(* message about it, and a net with the same name and the same endpoint    *)
(* set on both sides has no message about it.                              *)
C5_IdenticalItemsSilent ==
    ReconciliationDone =>
        /\ \A m \in Range(pcb_file.modules) :
             (/\ DictHas(comps, m.ref)
              /\ DictGet(comps, m.ref).val = m.value
              /\ DictGet(comps, m.ref).fp = m.fpid
              /\ DictAsFun(DictGet(comps, m.ref).props) = m.props)
             => AboutRef(m.ref) = {}
        /\ \A net \in PcbNets :
             (DictHas(net_nodes, net.name) /\ DictGet(net_nodes, net.name) = PadNodes(net))
             => AboutNet(net.name) = {}

C5_Witness ==
    /\ ReconciliationDone /\ errors # <<>>
    /\ \E m \in Range(pcb_file.modules) :
         DictHas(comps, m.ref) /\ DictGet(comps, m.ref).val = m.value
         /\ DictGet(comps, m.ref).fp = m.fpid
         /\ DictAsFun(DictGet(comps, m.ref).props) = m.props
    /\ \E net \in PcbNets :
         DictHas(net_nodes, net.name) /\ DictGet(net_nodes, net.name) = PadNodes(net)
         /\ net.pads # {}

(* C6: once check_components has returned, for a component on both sides   *)
(* and a property name p of either side: p only in the schematic has one   *)
(* "schematic property not in PCB" message, p only on the board has one    *)
(* "PCB property not in schematic" message, p on both sides has neither;   *)
(* and the property-mismatch messages showing the values (a, b) are as     *)
(* many as the names held on both sides with board value a and schematic   *)
(* value b, a # b: one per differing name, none for an equal one, none     *)
(* for a name that is missing on a side.                                   *)
C6_PropertyOutcomes ==
    ComponentsDone =>
        \A m \in Range(pcb_file.modules) :
          DictHas(comps, m.ref) =>
            LET sch == DictAsFun(DictGet(comps, m.ref).props)
                pcb == m.props
            IN  /\ \A p \in (DOMAIN sch) \cup (DOMAIN pcb) :
                     /\ Cardinality(Places(MsgSchProp(m.ref, p)))
                          = IF p \notin DOMAIN pcb THEN 1 ELSE 0
                     /\ Cardinality(Places(MsgPcbProp(m.ref, p)))
                          = IF p \notin DOMAIN sch THEN 1 ELSE 0
                /\ \A a \in PropVals, b \in PropVals :
                     Cardinality(Places(MsgPropMismatch(m.ref, a, b)))
                       = Cardinality({p \in (DOMAIN sch) \cap (DOMAIN pcb) :
                                         pcb[p] = a /\ sch[p] = b /\ a # b})
                /\ Cardinality(PlacesOf(MsgSchProp("", "")[1], m.ref))
                   + Cardinality(PlacesOf(MsgPcbProp("", "")[1], m.ref))
                   + Cardinality(PlacesOf(MsgPropMismatch("", "", "")[1], m.ref))
                     = Cardinality({p \in (DOMAIN sch) \cup (DOMAIN pcb) :
                                      p \notin DOMAIN sch \/ p \notin DOMAIN pcb \/ sch[p] # pcb[p]})

C6_Witness ==
    /\ ComponentsDone
    /\ \E m \in Range(pcb_file.modules) :
         /\ DictHas(comps, m.ref)
         /\ \E p \in DictKeys(DictGet(comps, m.ref).props) : p \notin DOMAIN m.props
         /\ \E p \in DictKeys(DictGet(comps, m.ref).props) :
              p \in DOMAIN m.props /\ m.props[p] # DictGet(DictGet(comps, m.ref).props, p)

(* C7: once both reconcilers have returned, a board net the schematic has  *)
(* too has one "extra PCB connection/s" message exactly when board         *)
(* endpoints minus schematic endpoints is not empty, and the message lists *)
(* the tokens of that difference (in some order, joined by commas); the    *)
(* same for "missing PCB connection/s" and schematic endpoints minus board *)
(* endpoints.                                                              *)
C7_EndpointDifferences ==
    ReconciliationDone =>
        \A net \in PcbNets :
          net.name \in SchNetNames =>
            LET sch_nodes == DictGet(net_nodes, net.name)
                pcb_nodes == {Token(q.ref, q.number) : q \in net.pads}
                extra == PlacesOf(MsgNetExtra("", <<>>)[1], net.name)
                missing == PlacesOf(MsgNetMissing("", <<>>)[1], net.name)
            IN  /\ Cardinality(extra) = IF pcb_nodes \ sch_nodes # {} THEN 1 ELSE 0
                /\ \A i \in extra :
                     \E order \in SetOrders(pcb_nodes \ sch_nodes) : errors[i][3] = Join(order)
                /\ Cardinality(missing) = IF sch_nodes \ pcb_nodes # {} THEN 1 ELSE 0
                /\ \A i \in missing :
                     \E order \in SetOrders(sch_nodes \ pcb_nodes) : errors[i][3] = Join(order)

C7_Witness ==
    /\ ReconciliationDone
    /\ \E net \in PcbNets :
         /\ PlacesOf(MsgNetExtra("", <<>>)[1], net.name) # {}
         /\ PlacesOf(MsgNetMissing("", <<>>)[1], net.name) # {}

(* C8: check_nets has one net-count-mismatch message exactly when the      *)
(* number of schematic nets differs from the number of board nets without  *)
(* the reserved net, and the per-net checks run all the same: every board  *)
(* net is visited, a board net the schematic lacks has its "not in         *)
(* schematic" message and a board net whose endpoints differ has an        *)
(* endpoint message.                                                       *)
C8_NetCountIndependent ==
    /\ (board.loaded /\ pc \in {"check_nets", "report", "done"}) =>
          Cardinality({i \in 1..Len(errors) : errors[i][1] = MsgNetCount(0, 0)[1]})
            = IF Cardinality(SchNetNames) # Cardinality(PcbNets) THEN 1 ELSE 0
    /\ ReconciliationDone =>
          /\ net_i = Len(pcb_file.nets)
          /\ \A net \in PcbNets :
               /\ net.name \notin SchNetNames
                    => Cardinality(Places(MsgNetNotInSch(net.name))) = 1
               /\ (net.name \in SchNetNames /\ DictGet(net_nodes, net.name) # PadNodes(net))
                    => AboutNet(net.name) # {}

C8_Witness ==
    /\ ReconciliationDone
    /\ \E i \in 1..Len(errors) : errors[i][1] = MsgNetCount(0, 0)[1]
    /\ \E i \in 1..Len(errors) : errors[i][1] = MsgNetExtra("", <<>>)[1]
    /\ \E i \in 1..Len(errors) : errors[i][1] = MsgNetNotInSch("")[1]

(* C9: a second run on the same inputs ends with the same message          *)
(* sequence as the first.                                                  *)
C9_SameSequenceTwice ==
    (run >= 2 /\ ReconciliationDone) => errors = prev_errors

\* s is a prefix of t
IsPrefix(s, t) == Len(s) <= Len(t) /\ SubSeq(t, 1, Len(s)) = s

(* C10: from the successful parse to the report nothing is surfaced and    *)
(* nothing exits or raises; a step of reconciliation only appends to the   *)
(* discrepancy list and leads to more reconciliation or to the report,     *)
(* which leaves the list as it is; in the list, hence in what is surfaced, *)
(* every component message comes before every net message.                 *)
C10_RunsToCompletion ==
    /\ [](pc \in {"load_board", "check_components", "check_nets_count", "check_nets", "report"}
            => log = <<>> /\ exit_code = "" /\ raised = "")
    /\ [][(Reconciling => /\ pc' \in {"check_components", "check_nets_count", "check_nets", "report"}
                          /\ IsPrefix(errors, errors'))
          /\ (pc = "load_board" => pc' = "check_components")
          /\ (pc = "report" => pc' = "done" /\ errors' = errors
                               /\ Len(log') = Len(errors)
                               /\ \A i \in 1..Len(errors) : log'[i][3] = errors[i])]_vars
    /\ [](board.loaded =>
            \A i, j \in 1..Len(errors) :
              (errors[i][1] \in NetTemplates /\ errors[j][1] \in CompTemplates) => j < i)

C10_Witness ==
    /\ pc = "done" /\ board.loaded
    /\ \E i, j \in 1..Len(errors) :
         errors[i][1] \in CompTemplates /\ errors[j][1] \in NetTemplates
    /\ Len(errors) >= 3

=============================================================================
